---- MODULE Spec2Model ----
(***************************************************************************)
(* Model of the parallax-view-portal backend: the job submission route,    *)
(* the job ledger (SQLite tables jobs and assets), the blob store (uploads *)
(* and processed assets on disk) and the process_image pipeline with its   *)
(* provider chains and local fallbacks.                                    *)
(*                                                                         *)
(* Every action is one step of a coroutine between two suspension points   *)
(* (an awaited ledger call, blob write or provider call) or the local      *)
(* computation that precedes it.  A ledger or blob write either takes      *)
(* effect and returns, or raises without taking effect (SQLite commits are *)
(* atomic).  Provider calls answer with any of the outcomes the HTTP       *)
(* client can produce.                                                     *)
(***************************************************************************)
EXTENDS Integers, FiniteSets, Sequences, TLC

\* ------------------------------------------------------------------ bounds
\* Largest image width and height drawn for an upload.
MaxDim == 2

\* Largest image width and height handed to classify_image on its own.
MaxClassifyDim == 6

\* Job identities (uuid4 values in the program).
Jobs == {"j1", "j2"}

\* The jobs that clients submit.
Clients == {"j1"}

\* ------------------------------------------------------- program constants
\* range(60) in generate_depth_replicate.
MaxPolls == 60

\* JobStatus
PENDING == "pending"
PROCESSING == "processing"
COMPLETED == "completed"
FAILED == "failed"
JobStatus == {PENDING, PROCESSING, COMPLETED, FAILED}

\* InputType
OBJECT == "object"
LANDSCAPE == "landscape"
UNKNOWN == "unknown"
InputType == {OBJECT, LANDSCAPE, UNKNOWN}

\* Python None for a string/enum argument, None for an int argument, SQL NULL.
None == "None"
NoneInt == -1
NULL == "NULL"

\* Texts of str(e) for the exceptions the pipeline can raise.
ErrUploadNotFound == "Upload not found"
ErrCannotIdentify == "cannot identify image file"
ErrLedger == "database error"
ErrBlob == "blob write error"
ErrZeroDivision == "float division by zero"
ErrorTexts == {ErrUploadNotFound, ErrCannotIdentify, ErrLedger, ErrBlob, ErrZeroDivision}

AssetTypes == {"color", "depth", "mask"}

\* Files a client can upload: an image of some size, or bytes that are no image.
Dims == 1..MaxDim
TruncatedFile == [readable |-> FALSE, width |-> 1, height |-> 1]
Files == [readable : {TRUE}, width : Dims, height : Dims] \cup {TruncatedFile}
NoImage == [width |-> 0, height |-> 0]
NoDepth == [source |-> "none", mode |-> "none"]

VARIABLES
  REPLICATE_API_TOKEN, \* TRUE iff the credential is configured
  HF_API_TOKEN,        \* TRUE iff the credential is configured
  jobs,                \* ledger table jobs: job id -> row
  assets,              \* ledger table assets: set of rows
  uploads,             \* blob store, uploads: job id -> file
  blobs,               \* blob store, processed assets: set of <<job id, filename>>
  rpc,                 \* position of the submission request of each job
  request,             \* the request's form fields: hint and file
  pc,                  \* position of process_image for each job
  input_type_hint,     \* process_image argument
  image,               \* local: the opened image (its size)
  input_type,          \* local: classified or hinted type
  depth_image,         \* local: the depth image and where it came from
  outputs,             \* local: asset type -> asset id, as a set of pairs
  e,                   \* the exception being handled or propagated
  polls,               \* status polls performed by generate_depth_replicate
  terminalWrites,      \* history: update_job calls issued with a terminal status
  lateCalls,           \* history: ledger calls issued after a terminal write
  storageFault,        \* history: a ledger or blob write of this job raised
  writes,              \* history: the update_job calls committed by process_image
  invocations,         \* history: times process_image was invoked for the job
  classified,          \* history: classify_image was called for the job
  hfAnswer,            \* history: what classify_with_hf answered, "none" if not called
  attempts             \* history: depth providers called by generate_depth_map

env == <<REPLICATE_API_TOKEN, HF_API_TOKEN>>
ledger == <<jobs, assets>>
store == <<uploads, blobs>>
route == <<rpc, request>>
locals == <<input_type_hint, image, input_type, depth_image, outputs, polls>>
history == <<terminalWrites, lateCalls, storageFault, writes>>
calls == <<invocations, classified, hfAnswer, attempts>>
vars == <<env, ledger, store, route, pc, locals, e, history, calls>>

\* ------------------------------------------------------------ job ledger

\* database.create_job: the inserted row; progress takes the column default.
NewJobRow(hint) ==
  [status |-> PENDING,
   input_type |-> IF hint = None THEN NULL ELSE hint,
   progress |-> 0,
   error |-> NULL,
   outputs |-> {}]

\* Mutant of update_job: a call that passes no progress resets the column.
UpdateJob_ResetsProgress(row, status, itype, progress, error, outs) ==
  [status |-> IF status # None THEN status ELSE row.status,
   input_type |-> IF itype # None THEN itype ELSE row.input_type,
   progress |-> IF progress # NoneInt THEN progress ELSE 0,
   error |-> IF error # None THEN error ELSE row.error,
   outputs |-> IF outs # {} THEN outs ELSE row.outputs]

\* Mutant of update_job: the outputs argument is never written.
UpdateJob_DropsOutputs(row, status, itype, progress, error, outs) ==
  [status |-> IF status # None THEN status ELSE row.status,
   input_type |-> IF itype # None THEN itype ELSE row.input_type,
   progress |-> IF progress # NoneInt THEN progress ELSE row.progress,
   error |-> IF error # None THEN error ELSE row.error,
   outputs |-> row.outputs]

\* Mutant of update_job: the error argument is never written.
UpdateJob_DropsError(row, status, itype, progress, error, outs) ==
  [status |-> IF status # None THEN status ELSE row.status,
   input_type |-> IF itype # None THEN itype ELSE row.input_type,
   progress |-> IF progress # NoneInt THEN progress ELSE row.progress,
   error |-> row.error,
   outputs |-> IF outs # {} THEN outs ELSE row.outputs]

\* database.update_job: only the arguments that are not None are written.
UpdateJob(row, status, itype, progress, error, outs) ==
  [status |-> IF status # None THEN status ELSE row.status,
   input_type |-> IF itype # None THEN itype ELSE row.input_type,
   progress |-> IF progress # NoneInt THEN progress ELSE row.progress,
   error |-> IF error # None THEN error ELSE row.error,
   outputs |-> IF outs # {} THEN outs ELSE row.outputs]

\* database.get_job: the row as the polling client sees it, None if absent.
GetJob(j) ==
  IF j \in DOMAIN jobs
    THEN [status |-> jobs[j].status,
          input_type |-> IF jobs[j].input_type # NULL THEN jobs[j].input_type ELSE None,
          progress |-> jobs[j].progress,
          error |-> IF jobs[j].error # NULL THEN jobs[j].error ELSE None,
          outputs |-> jobs[j].outputs]
    ELSE [status |-> None, input_type |-> None, progress |-> NoneInt,
          error |-> None, outputs |-> {}]

\* database.create_asset: a fresh id (uuid4) and the inserted row.
NewAssetId == Cardinality(assets) + 1

\* Mutant of create_asset: every row is inserted with asset type "color".
NewAssetRow_Color(j, asset_type) ==
  [id |-> NewAssetId, job_id |-> j, asset_type |-> "color",
   filename |-> asset_type \o ".png"]

NewAssetRow(j, asset_type) ==
  [id |-> NewAssetId, job_id |-> j, asset_type |-> asset_type,
   filename |-> asset_type \o ".png"]

\* Mutant of get_asset_path: the extension is left out of the file name.
AssetPath_NoExtension(j, asset_type, extension) == <<j, asset_type>>

\* storage.get_asset_path: the blob key of a processed asset.
AssetPath(j, asset_type, extension) == <<j, asset_type \o extension>>

\* database.get_asset: the row with this id, or NULL.
GetAsset(asset_id) ==
  IF \E a \in assets : a.id = asset_id
    THEN CHOOSE a \in assets : a.id = asset_id
    ELSE NULL

\* storage.get_asset_by_id: the path job directory / filename if a file is
\* there, else NULL.
GetAssetById(asset_id, job_id, filename) ==
  IF <<job_id, filename>> \in blobs THEN <<job_id, filename>> ELSE NULL

\* routes/assets.download_asset: the answer to a download of asset_id.
DownloadAsset(asset_id) ==
  LET asset == GetAsset(asset_id) IN
    IF ~\E a \in assets : a.id = asset_id THEN "Asset not found"
    ELSE IF GetAssetById(asset_id, asset.job_id, asset.filename) = NULL
           THEN "Asset file not found"
           ELSE "FileResponse"


\* -------------------------------------------------------------- helpers

\* The table with row r stored under key k.
Put(table, k, r) == [x \in (DOMAIN table) \cup {k} |-> IF x = k THEN r ELSE table[x]]

\* An exception with text str(e) = text is raised inside the try block of
\* process_image: control moves to the except clause.
Raise(j, text) ==
  /\ pc' = [pc EXCEPT ![j] = "except"]
  /\ e' = [e EXCEPT ![j] = text]

Goto(j, next) ==
  /\ pc' = [pc EXCEPT ![j] = next]
  /\ UNCHANGED e

IsTerminal(status) == status \in {COMPLETED, FAILED}

\* Bookkeeping of one ledger call issued by the pipeline of job j.
NoteLedgerCall(j, status, raised) ==
  /\ terminalWrites' = [terminalWrites EXCEPT ![j] = @ + (IF IsTerminal(status) THEN 1 ELSE 0)]
  /\ lateCalls' = [lateCalls EXCEPT ![j] = @ \/ terminalWrites[j] > 0]
  /\ storageFault' = [storageFault EXCEPT ![j] = @ \/ raised]

\* The arguments of one committed update_job call of the pipeline of job j,
\* appended to the calls committed before it.
NoteWrite(j, status, itype, progress, outs) ==
  writes' = [writes EXCEPT ![j] = Append(@, [status |-> status, input_type |-> itype,
                                             progress |-> progress, outputs |-> outs])]

\* Mutant of update_job: the UPDATE has no WHERE clause and writes every row.
AwaitUpdateJob_NoWhere(j, status, itype, progress, outs, next) ==
  \/ /\ jobs' = [k \in DOMAIN jobs |-> UpdateJob(jobs[k], status, itype, progress, None, outs)]
     /\ Goto(j, next)
     /\ NoteLedgerCall(j, status, FALSE)
     /\ NoteWrite(j, status, itype, progress, outs)
  \/ /\ UNCHANGED <<jobs, writes>>
     /\ Raise(j, ErrLedger)
     /\ NoteLedgerCall(j, status, TRUE)

\* await db.update_job(...) inside the try block: the UPDATE commits and the
\* pipeline goes on to next, or the call raises and nothing is written.
AwaitUpdateJob(j, status, itype, progress, outs, next) ==
  \/ /\ jobs' = [jobs EXCEPT ![j] = UpdateJob(@, status, itype, progress, None, outs)]
     /\ Goto(j, next)
     /\ NoteLedgerCall(j, status, FALSE)
     /\ NoteWrite(j, status, itype, progress, outs)
  \/ /\ UNCHANGED <<jobs, writes>>
     /\ Raise(j, ErrLedger)
     /\ NoteLedgerCall(j, status, TRUE)

\* await save_asset(...): the blob is written; or the write raises, before
\* the file is opened (nothing on disk) or after (a file is left behind).
AwaitSaveAsset(j, asset_type, next) ==
  \/ /\ blobs' = blobs \cup {AssetPath(j, asset_type, ".png")}
     /\ Goto(j, next)
     /\ UNCHANGED storageFault
  \/ /\ \/ UNCHANGED blobs
        \/ blobs' = blobs \cup {AssetPath(j, asset_type, ".png")}
     /\ Raise(j, ErrBlob)
     /\ storageFault' = [storageFault EXCEPT ![j] = TRUE]

\* await db.create_asset(...): the INSERT commits and its id is kept in the
\* outputs being assembled, or the call raises.
AwaitCreateAsset(j, asset_type, next) ==
  \/ /\ assets' = assets \cup {NewAssetRow(j, asset_type)}
     /\ outputs' = [outputs EXCEPT ![j] = @ \cup {<<asset_type, NewAssetId>>}]
     /\ Goto(j, next)
     /\ NoteLedgerCall(j, None, FALSE)
     /\ UNCHANGED writes
  \/ /\ UNCHANGED <<assets, outputs, writes>>
     /\ Raise(j, ErrLedger)
     /\ NoteLedgerCall(j, None, TRUE)

\* ------------------------------------------------------------------ Init

Init ==
  /\ REPLICATE_API_TOKEN \in BOOLEAN
  /\ HF_API_TOKEN \in BOOLEAN
  /\ jobs = [x \in {} |-> NULL]
  /\ assets = {}
  /\ uploads = [x \in {} |-> NULL]
  /\ blobs = {}
  /\ rpc = [j \in Jobs |-> "idle"]
  /\ request = [j \in Jobs |-> [hint |-> None, file |-> TruncatedFile]]
  /\ pc = [j \in Jobs |-> "none"]
  /\ input_type_hint = [j \in Jobs |-> None]
  /\ image = [j \in Jobs |-> NoImage]
  /\ input_type = [j \in Jobs |-> None]
  /\ depth_image = [j \in Jobs |-> NoDepth]
  /\ outputs = [j \in Jobs |-> {}]
  /\ e = [j \in Jobs |-> None]
  /\ polls = [j \in Jobs |-> 0]
  /\ terminalWrites = [j \in Jobs |-> 0]
  /\ lateCalls = [j \in Jobs |-> FALSE]
  /\ storageFault = [j \in Jobs |-> FALSE]
  /\ writes = [j \in Jobs |-> <<>>]
  /\ invocations = [j \in Jobs |-> 0]
  /\ classified = [j \in Jobs |-> FALSE]
  /\ hfAnswer = [j \in Jobs |-> "none"]
  /\ attempts = [j \in Jobs |-> <<>>]

\* ------------------------------------------------- routes/jobs.create_job

\* The hints the route accepts: absent (or empty), or a value of InputType.
Hints == {None} \cup InputType

\* Lines 32-48: the request is validated and the job row inserted; an
\* insert that raises ends the request with no row.
Route_CreateJob(j) ==
  /\ rpc[j] = "idle"
  /\ \E hint \in Hints, file \in Files :
       /\ request' = [request EXCEPT ![j] = [hint |-> hint, file |-> file]]
       /\ \/ /\ jobs' = Put(jobs, j, NewJobRow(hint))
             /\ rpc' = [rpc EXCEPT ![j] = "created"]
          \/ /\ UNCHANGED jobs
             /\ rpc' = [rpc EXCEPT ![j] = "error"]
  /\ UNCHANGED <<calls, env, assets, store, pc, locals, e, history>>

\* Lines 50-56: the upload is stored and the pipeline is scheduled as a
\* background task; a save_upload that raises ends the request before
\* add_task, with nothing or with a partly copied file on disk.
Route_SaveUpload(j) ==
  /\ rpc[j] = "created"
  /\ \/ /\ uploads' = Put(uploads, j, request[j].file)
        /\ rpc' = [rpc EXCEPT ![j] = "responded"]
        /\ pc' = [pc EXCEPT ![j] = "start"]
        /\ input_type_hint' = [input_type_hint EXCEPT ![j] = request[j].hint]
        /\ invocations' = [invocations EXCEPT ![j] = @ + 1]
     \/ /\ rpc' = [rpc EXCEPT ![j] = "error"]
        /\ \/ UNCHANGED uploads
           \/ uploads' = Put(uploads, j, TruncatedFile)
        /\ UNCHANGED <<pc, input_type_hint, invocations>>
  /\ UNCHANGED <<classified, hfAnswer, attempts, env, ledger, blobs, request, image, input_type, depth_image,
                 outputs, polls, e, history>>

\* process_image called by a caller other than the route, for a job row
\* whose upload was never stored.
Direct_Invoke(j) ==
  /\ rpc[j] = "idle"
  /\ \E hint \in Hints :
       /\ jobs' = Put(jobs, j, NewJobRow(hint))
       /\ input_type_hint' = [input_type_hint EXCEPT ![j] = hint]
  /\ rpc' = [rpc EXCEPT ![j] = "direct"]
  /\ pc' = [pc EXCEPT ![j] = "start"]
  /\ invocations' = [invocations EXCEPT ![j] = @ + 1]
  /\ UNCHANGED <<classified, hfAnswer, attempts, env, assets, store, request, image, input_type, depth_image,
                 outputs, polls, e, history>>


\* --------------------------------------------- services/processor.py

\* Line 34: status Processing and progress 10.
PI_Start(j) ==
  /\ pc[j] = "start"
  /\ AwaitUpdateJob(j, PROCESSING, None, 10, {}, "load")
  /\ UNCHANGED <<calls, env, assets, store, route, locals>>

\* Lines 37-42: the upload must exist and open as an image.
PI_Load(j) ==
  /\ pc[j] = "load"
  /\ IF j \notin DOMAIN uploads
       THEN Raise(j, ErrUploadNotFound) /\ UNCHANGED image
       ELSE IF ~uploads[j].readable
         THEN Raise(j, ErrCannotIdentify) /\ UNCHANGED image
         ELSE /\ image' = [image EXCEPT ![j] = [width |-> uploads[j].width,
                                                  height |-> uploads[j].height]]
              /\ Goto(j, "u20")
  /\ UNCHANGED <<calls, env, ledger, store, route, input_type_hint, input_type,
                 depth_image, outputs, polls, history>>

\* Line 45: progress 20.
PI_20(j) ==
  /\ pc[j] = "u20"
  /\ AwaitUpdateJob(j, None, None, 20, {}, "classify")
  /\ UNCHANGED <<calls, env, assets, store, route, locals>>

\* Mutant of line 128: the comparison with 1.5 lets the boundary through.
RatioAbove_Inclusive(width, height) == 2 * width >= 3 * height

\* classify_image lines 123-131: the aspect ratio width / height against
\* 1.5 and 0.75, on integers.
RatioAbove(width, height) == 2 * width > 3 * height
RatioBelow(width, height) == 4 * width < 3 * height

\* classify_image lines 128-141 up to the provider call: the type the
\* ratio decides, or "ambiguous" when the provider is to be asked.
ClassifyByRatio(img) ==
  IF RatioAbove(img.width, img.height) THEN LANDSCAPE
  ELSE IF RatioBelow(img.width, img.height) THEN OBJECT
  ELSE IF HF_API_TOKEN THEN "ambiguous"
  ELSE OBJECT

\* Mutant of lines 46-49: the hint is ignored and classify_image always runs.
PI_Classify_IgnoresHint(j) ==
  /\ pc[j] = "classify"
  /\ classified' = [classified EXCEPT ![j] = TRUE]
  /\ IF ClassifyByRatio(image[j]) = "ambiguous"
       THEN /\ UNCHANGED input_type
            /\ Goto(j, "classify_hf")
       ELSE /\ input_type' = [input_type EXCEPT ![j] = ClassifyByRatio(image[j])]
            /\ Goto(j, "u30")
  /\ UNCHANGED <<invocations, hfAnswer, attempts, env, ledger, store, route, input_type_hint, image,
                 depth_image, outputs, polls, history>>

\* Lines 46-49: the hint when there is one, else classify_image.
PI_Classify(j) ==
  /\ pc[j] = "classify"
  /\ IF input_type_hint[j] # None
       THEN /\ input_type' = [input_type EXCEPT ![j] = input_type_hint[j]]
            /\ Goto(j, "u30")
            /\ UNCHANGED classified
       ELSE /\ classified' = [classified EXCEPT ![j] = TRUE]
            /\ IF ClassifyByRatio(image[j]) = "ambiguous"
                 THEN /\ UNCHANGED input_type
                      /\ Goto(j, "classify_hf")
                 ELSE /\ input_type' = [input_type EXCEPT ![j] = ClassifyByRatio(image[j])]
                      /\ Goto(j, "u30")
  /\ UNCHANGED <<invocations, hfAnswer, attempts, env, ledger, store, route, input_type_hint, image,
                 depth_image, outputs, polls, history>>

\* classify_with_hf and lines 135-141: a landscape label among the top 5,
\* no such label, or any error (swallowed, Object by default).
CI_ClassifyWithHF(j) ==
  /\ pc[j] = "classify_hf"
  /\ \E answer \in {"landscape_label", "other_labels", "error"} :
       /\ input_type' = [input_type EXCEPT ![j] =
                           IF answer = "landscape_label" THEN LANDSCAPE ELSE OBJECT]
       /\ hfAnswer' = [hfAnswer EXCEPT ![j] = answer]
  /\ Goto(j, "u30")
  /\ UNCHANGED <<invocations, classified, attempts, env, ledger, store, route, input_type_hint, image,
                 depth_image, outputs, polls, history>>

\* Line 51: input_type and progress 30.
PI_30(j) ==
  /\ pc[j] = "u30"
  /\ AwaitUpdateJob(j, None, input_type[j], 30, {}, "u40")
  /\ UNCHANGED <<calls, env, assets, store, route, locals>>

\* Line 54: progress 40.
PI_40(j) ==
  /\ pc[j] = "u40"
  /\ AwaitUpdateJob(j, None, None, 40, {}, "depth")
  /\ UNCHANGED <<calls, env, assets, store, route, locals>>

\* generate_depth_map lines 178, 185, 189: a provider function is called.
Attempt(j, provider) ==
  attempts' = [attempts EXCEPT ![j] = Append(@, provider)]

\* Mutant of generate_depth_map: Replicate's failure goes to the fallback.
AfterReplicate_SkipsHF == "fallback_depth"

\* generate_depth_map lines 182-189: where the chain goes after Replicate.
AfterReplicate == IF HF_API_TOKEN THEN "hf_depth" ELSE "fallback_depth"

\* generate_depth_map line 176: the first provider of the chain.
GDM_Enter(j) ==
  /\ pc[j] = "depth"
  /\ Goto(j, IF REPLICATE_API_TOKEN THEN "replicate_post" ELSE AfterReplicate)
  /\ UNCHANGED <<calls, env, ledger, store, route, locals, history>>

\* generate_depth_replicate lines 202-218: the prediction is created, or
\* the request fails.
GDR_Post(j) ==
  /\ pc[j] = "replicate_post"
  /\ \E ok \in BOOLEAN :
       Goto(j, IF ok THEN "replicate_poll" ELSE AfterReplicate)
  /\ polls' = [polls EXCEPT ![j] = 0]
  /\ Attempt(j, "replicate")
  /\ UNCHANGED <<invocations, classified, hfAnswer, env, ledger, store, route,
                 input_type_hint, image, input_type,
                 depth_image, outputs, history>>

\* Mutant of the polling loop: range(61).
GDR_Poll_OneMore(j) ==
  /\ pc[j] = "replicate_poll"
  /\ polls[j] <= MaxPolls
  /\ \E status \in {"processing", "succeeded", "failed", "transport_error"} :
       Goto(j, CASE status = "processing" -> "replicate_poll"
                 [] status = "succeeded" -> "replicate_download"
                 [] status = "failed" -> "replicate_failed"
                 [] OTHER -> "replicate_error")
  /\ polls' = [polls EXCEPT ![j] = @ + 1]
  /\ UNCHANGED <<calls, env, ledger, store, route, input_type_hint, image, input_type,
                 depth_image, outputs, history>>

\* Lines 219-228: one iteration of the polling loop, the wait and the status
\* request.  The answer is a status that is neither succeeded nor failed (the
\* loop goes on), succeeded, failed, or the request raises.  polls is the
\* loop counter of generate_depth_replicate.
GDR_Poll(j) ==
  /\ pc[j] = "replicate_poll"
  /\ polls[j] < MaxPolls
  /\ \E status \in {"processing", "succeeded", "failed", "transport_error"} :
       Goto(j, CASE status = "processing" -> "replicate_poll"
                 [] status = "succeeded" -> "replicate_download"
                 [] status = "failed" -> "replicate_failed"
                 [] OTHER -> "replicate_error")
  /\ polls' = [polls EXCEPT ![j] = @ + 1]
  /\ UNCHANGED <<calls, env, ledger, store, route, input_type_hint, image, input_type,
                 depth_image, outputs, history>>

\* Lines 225 and 234-235: the status request raised, or the status is failed
\* and the function raises; generate_depth_map catches it.  The loop counter
\* is gone once the function is left.
GDR_Raise(j) ==
  /\ pc[j] \in {"replicate_failed", "replicate_error"}
  /\ Goto(j, AfterReplicate)
  /\ polls' = [polls EXCEPT ![j] = 0]
  /\ UNCHANGED <<calls, env, ledger, store, route, input_type_hint, image, input_type,
                 depth_image, outputs, history>>

\* Line 237: the loop ran out.
GDR_Timeout(j) ==
  /\ pc[j] = "replicate_poll"
  /\ polls[j] >= MaxPolls
  /\ Goto(j, AfterReplicate)
  /\ polls' = [polls EXCEPT ![j] = 0]
  /\ UNCHANGED <<calls, env, ledger, store, route, input_type_hint, image, input_type,
                 depth_image, outputs, history>>

\* Lines 230-232: the output is downloaded and opened as it is.
GDR_Download(j) ==
  /\ pc[j] = "replicate_download"
  /\ \/ \E mode \in {"L", "RGB"} :
          /\ depth_image' = [depth_image EXCEPT ![j] = [source |-> "replicate", mode |-> mode]]
          /\ Goto(j, "u60")
     \/ /\ UNCHANGED depth_image
        /\ Goto(j, AfterReplicate)
  /\ polls' = [polls EXCEPT ![j] = 0]
  /\ UNCHANGED <<calls, env, ledger, store, route, input_type_hint, image, input_type,
                 outputs, history>>

\* generate_depth_hf: the response is opened as it is, or the call fails.
GDH_Post(j) ==
  /\ pc[j] = "hf_depth"
  /\ \/ \E mode \in {"L", "RGB"} :
          /\ depth_image' = [depth_image EXCEPT ![j] = [source |-> "hf", mode |-> mode]]
          /\ Goto(j, "u60")
     \/ /\ UNCHANGED depth_image
        /\ Goto(j, "fallback_depth")
  /\ Attempt(j, "hf")
  /\ UNCHANGED <<invocations, classified, hfAnswer, env, ledger, store, route,
                 input_type_hint, image, input_type,
                 outputs, polls, history>>

\* generate_fallback_depth lines 266-274: max_dist is the square root of
\* center_x^2 + center_y^2 and divides the distance of every pixel.
MaxDistSquared(img) == (img.width \div 2) * (img.width \div 2)
                        + (img.height \div 2) * (img.height \div 2)
FallbackDepthRaises(img) == MaxDistSquared(img) = 0

\* generate_fallback_depth: a mode "L" image, or ZeroDivisionError, which
\* nothing in generate_depth_map catches.
GFD_Compute(j) ==
  /\ pc[j] = "fallback_depth"
  /\ IF FallbackDepthRaises(image[j])
       THEN Raise(j, ErrZeroDivision) /\ UNCHANGED depth_image
       ELSE /\ depth_image' = [depth_image EXCEPT ![j] = [source |-> "fallback", mode |-> "L"]]
            /\ Goto(j, "u60")
  /\ Attempt(j, "fallback")
  /\ UNCHANGED <<invocations, classified, hfAnswer, env, ledger, store, route,
                 input_type_hint, image, input_type,
                 outputs, polls, history>>

\* Mutant of line 56: the update after depth generation writes progress 50.
PI_60_Writes50(j) ==
  /\ pc[j] = "u60"
  /\ AwaitUpdateJob(j, None, None, 50, {}, "save_color")
  /\ UNCHANGED <<calls, env, assets, store, route, locals>>

\* Line 56: progress 60.
PI_60(j) ==
  /\ pc[j] = "u60"
  /\ AwaitUpdateJob(j, None, None, 60, {}, "save_color")
  /\ UNCHANGED <<calls, env, assets, store, route, locals>>

\* Lines 59-61: the color blob.
PI_SaveColor(j) ==
  /\ pc[j] = "save_color"
  /\ AwaitSaveAsset(j, "color", "asset_color")
  /\ UNCHANGED <<calls, env, ledger, uploads, route, locals, terminalWrites, lateCalls, writes>>

\* Lines 62-69: the color asset row.
PI_AssetColor(j) ==
  /\ pc[j] = "asset_color"
  /\ AwaitCreateAsset(j, "color", "save_depth")
  /\ UNCHANGED <<calls, env, jobs, store, route, input_type_hint, image, input_type,
                 depth_image, polls>>

\* Lines 72-74: the depth blob.
PI_SaveDepth(j) ==
  /\ pc[j] = "save_depth"
  /\ AwaitSaveAsset(j, "depth", "asset_depth")
  /\ UNCHANGED <<calls, env, ledger, uploads, route, locals, terminalWrites, lateCalls, writes>>

\* Mutant of line 90: the test names the wrong input type.
NeedsMask_Landscape(itype) == itype = LANDSCAPE

\* Mutant of line 90: the mask step runs for everything but Landscape.
NeedsMask_NotLandscape(itype) == itype # LANDSCAPE

\* Line 90: the mask step runs for Object inputs.
NeedsMask(itype) == itype = OBJECT

\* Lines 75-90: the depth asset row, then the branch on the input type.
PI_AssetDepth(j) ==
  /\ pc[j] = "asset_depth"
  /\ AwaitCreateAsset(j, "depth", IF NeedsMask(input_type[j]) THEN "u80" ELSE "u100")
  /\ UNCHANGED <<calls, env, jobs, store, route, input_type_hint, image, input_type,
                 depth_image, polls>>

\* Line 91: progress 80.
PI_80(j) ==
  /\ pc[j] = "u80"
  /\ AwaitUpdateJob(j, None, None, 80, {}, "mask")
  /\ UNCHANGED <<calls, env, assets, store, route, locals>>

\* generate_fallback_mask lines 311-316: radius_x = width * 0.4 and
\* radius_y = height * 0.4 divide the offsets of every pixel.
FallbackMaskRaises(img) == 4 * img.width = 0 \/ 4 * img.height = 0

\* generate_mask: with or without the Replicate credential the result is
\* generate_fallback_mask, which divides by 0.4 * width and 0.4 * height.
GM_Compute(j) ==
  /\ pc[j] = "mask"
  /\ IF FallbackMaskRaises(image[j])
       THEN Raise(j, ErrZeroDivision)
       ELSE Goto(j, "save_mask")
  /\ UNCHANGED <<calls, env, ledger, store, route, locals, history>>

\* Lines 94-96: the mask blob.
PI_SaveMask(j) ==
  /\ pc[j] = "save_mask"
  /\ AwaitSaveAsset(j, "mask", "asset_mask")
  /\ UNCHANGED <<calls, env, ledger, uploads, route, locals, terminalWrites, lateCalls, writes>>

\* Lines 97-105: the mask asset row.
PI_AssetMask(j) ==
  /\ pc[j] = "asset_mask"
  /\ AwaitCreateAsset(j, "mask", "u100")
  /\ UNCHANGED <<calls, env, jobs, store, route, input_type_hint, image, input_type,
                 depth_image, polls>>

\* Lines 108-110: status Completed, progress 100 and the outputs.
PI_Complete(j) ==
  /\ pc[j] = "u100"
  /\ AwaitUpdateJob(j, COMPLETED, None, 100, outputs[j], "returned")
  /\ UNCHANGED <<calls, env, assets, store, route, locals>>

\* Lines 112-114: status Failed and str(e), then the exception is raised
\* again; when this write raises, its own exception leaves process_image.
PI_Except(j) ==
  /\ pc[j] = "except"
  /\ \/ /\ jobs' = [jobs EXCEPT ![j] = UpdateJob(@, FAILED, None, NoneInt, e[j], {})]
        /\ UNCHANGED e
        /\ NoteLedgerCall(j, FAILED, FALSE)
        /\ NoteWrite(j, FAILED, None, NoneInt, {})
     \/ /\ UNCHANGED <<jobs, writes>>
        /\ e' = [e EXCEPT ![j] = ErrLedger]
        /\ NoteLedgerCall(j, FAILED, TRUE)
  /\ pc' = [pc EXCEPT ![j] = "raised"]
  /\ UNCHANGED <<calls, env, assets, store, route, locals>>

\* ------------------------------------------------------------------ Next

process_image(j) ==
  \/ PI_Start(j) \/ PI_Load(j) \/ PI_20(j) \/ PI_Classify(j)
  \/ CI_ClassifyWithHF(j) \/ PI_30(j) \/ PI_40(j)
  \/ GDM_Enter(j) \/ GDR_Post(j) \/ GDR_Poll(j) \/ GDR_Raise(j) \/ GDR_Timeout(j)
  \/ GDR_Download(j) \/ GDH_Post(j) \/ GFD_Compute(j)
  \/ PI_60(j) \/ PI_SaveColor(j) \/ PI_AssetColor(j)
  \/ PI_SaveDepth(j) \/ PI_AssetDepth(j)
  \/ PI_80(j) \/ GM_Compute(j) \/ PI_SaveMask(j) \/ PI_AssetMask(j)
  \/ PI_Complete(j) \/ PI_Except(j)

Next ==
  \E j \in Clients :
    \/ Route_CreateJob(j)
    \/ Route_SaveUpload(j)
    \/ Direct_Invoke(j)
    \/ process_image(j)

Spec == Init /\ [][Next]_vars

\* Every coroutine that can take a step eventually takes it: the event loop
\* runs each ready task, and every awaited call returns or raises.
FairSpec == Spec /\ \A j \in Jobs : WF_vars(Route_SaveUpload(j) \/ process_image(j))


\* ---------------------------------------------------------------- claims

Ended(j) == pc[j] \in {"returned", "raised"}
Keys(outs) == {p[1] : p \in outs}
AssetsOf(j) == {a \in assets : a.job_id = j}
BlobsOf(j) == {b \in blobs : b[1] = j}

\* C1: the progress a poll of get_job returns for a job never decreases
\* from one ledger state to the next, and is always within 0..100.
C1_ProgressMonotone ==
  [][\A j \in Jobs :
       j \in DOMAIN jobs' =>
         /\ jobs'[j].progress \in 0..100
         /\ j \in DOMAIN jobs => jobs'[j].progress >= jobs[j].progress]_vars

\* C1 witness: a job that failed after its progress had reached 60.
C1_Witness ==
  \E j \in DOMAIN jobs : jobs[j].status = FAILED /\ jobs[j].progress = 60

\* C2: the only status changes are Pending->Processing, Processing->Completed
\* and Processing->Failed, also when a ledger write or a pipeline step raises.
C2_StatusTransitions ==
  [][\A j \in DOMAIN jobs :
       \/ jobs'[j].status = jobs[j].status
       \/ <<jobs[j].status, jobs'[j].status>> \in
            {<<PENDING, PROCESSING>>, <<PROCESSING, COMPLETED>>, <<PROCESSING, FAILED>>}]_vars

\* C3: the pipeline of a job issues exactly one ledger write with a terminal
\* status, and no ledger call after it.
C3_OneTerminalWrite ==
  \A j \in Jobs :
    /\ terminalWrites[j] <= 1
    /\ ~lateCalls[j]
    /\ Ended(j) => terminalWrites[j] = 1

\* C4: a Completed job stored as Landscape has outputs keys {color, depth},
\* one stored as Object has {color, depth, mask}.
C4_OutputKeys ==
  \A j \in DOMAIN jobs :
    jobs[j].status = COMPLETED =>
      /\ GetJob(j).input_type = LANDSCAPE => Keys(GetJob(j).outputs) = {"color", "depth"}
      /\ GetJob(j).input_type = OBJECT => Keys(GetJob(j).outputs) = {"color", "depth", "mask"}

\* C4 witness: a Completed Object job whose image the ratio alone would
\* have classified as Landscape.
C4_Witness ==
  \E j \in DOMAIN jobs :
    /\ jobs[j].status = COMPLETED
    /\ jobs[j].input_type = OBJECT
    /\ RatioAbove(image[j].width, image[j].height)

\* C5: the outputs of a job are set if and only if its status is Completed.
C5_OutputsIffCompleted ==
  \A j \in DOMAIN jobs :
    (GetJob(j).outputs # {}) <=> (GetJob(j).status = COMPLETED)

\* C5 witness: a Failed job that already owns asset rows.
C5_Witness ==
  \E j \in DOMAIN jobs : jobs[j].status = FAILED /\ AssetsOf(j) # {}

\* C6: the error of a job is non-null if and only if its status is Failed.
C6_ErrorIffFailed ==
  \A j \in DOMAIN jobs :
    (GetJob(j).error # None) <=> (GetJob(j).status = FAILED)

\* C6 witness: a Failed job carrying the text of a blob store error.
C6_Witness ==
  \E j \in DOMAIN jobs : jobs[j].status = FAILED /\ jobs[j].error = ErrBlob

\* C7: when process_image has raised, the stored status of the job is Failed.
C7_FailedWhenRaised ==
  \A j \in Jobs : pc[j] = "raised" => jobs[j].status = FAILED

\* C8: a job whose pipeline has started eventually has status Completed or
\* Failed.
C8_EventuallyTerminal ==
  \A j \in Jobs : (pc[j] = "start") ~> (j \in DOMAIN jobs /\ IsTerminal(jobs[j].status))

\* C9: a run that found the upload missing ends with status Failed, the
\* error of the missing upload, progress 10, no outputs, no asset row and no
\* processed blob.
C9_MissingUpload ==
  \A j \in Jobs :
    (Ended(j) /\ j \notin DOMAIN uploads /\ jobs[j].progress >= 10) =>
      /\ jobs[j].status = FAILED
      /\ jobs[j].error = ErrUploadNotFound
      /\ jobs[j].progress = 10
      /\ jobs[j].outputs = {}
      /\ AssetsOf(j) = {}
      /\ BlobsOf(j) = {}

\* C10: a job whose upload is a readable image and whose ledger and blob
\* writes all succeeded is never Failed, and is Completed when its run ends.
C10_ProvidersNeverFail ==
  \A j \in DOMAIN uploads :
    (uploads[j].readable /\ ~storageFault[j]) =>
      /\ jobs[j].status # FAILED
      /\ Ended(j) => jobs[j].status = COMPLETED


\* C11: the depth and mask chains never raise: no run of the pipeline is in
\* its except clause with an error of a fallback computer.
C11_ChainsNeverRaise ==
  \A j \in Jobs : ~(pc[j] = "except" /\ e[j] = ErrZeroDivision)


\* C12: once the input_type of a job is stored, no later ledger state shows
\* another one.
C12_InputTypeStable ==
  [][\A j \in DOMAIN jobs :
       GetJob(j).input_type # None => jobs'[j].input_type = jobs[j].input_type]_vars

\* C12 witness: a job hinted Landscape at creation, with an image the ratio
\* classifies as Object, that failed after the progress-30 update.
C12_Witness ==
  \E j \in DOMAIN jobs :
    /\ input_type_hint[j] = LANDSCAPE
    /\ RatioBelow(image[j].width, image[j].height)
    /\ jobs[j].progress >= 30
    /\ jobs[j].status = FAILED
    /\ jobs[j].input_type = LANDSCAPE

\* C13: with a hint, neither classify_image nor the classification provider
\* is ever called and the input_type stored at progress 30 is the hint;
\* without one, classify_image is called and its result is what is stored.
C13_HintVerbatim ==
  \A j \in DOMAIN jobs :
    /\ input_type_hint[j] # None => (~classified[j] /\ hfAnswer[j] = "none")
    /\ (invocations[j] > 0 /\ jobs[j].progress >= 30) =>
         IF input_type_hint[j] # None
           THEN jobs[j].input_type = input_type_hint[j]
           ELSE classified[j] /\ jobs[j].input_type = input_type[j]

\* C13 witness: a job hinted Object whose image the ratio classifies as
\* Landscape, right after the progress-30 update.
C13_Witness ==
  \E j \in DOMAIN jobs :
    /\ input_type_hint[j] = OBJECT
    /\ RatioAbove(image[j].width, image[j].height)
    /\ jobs[j].progress = 30
    /\ jobs[j].input_type = OBJECT

\* C14: for a job accepted by the submission route, the input_type stored
\* once progress has reached 30 is Object or Landscape.
C14_DefiniteType ==
  \A j \in DOMAIN jobs :
    (rpc[j] = "responded" /\ jobs[j].progress >= 30) =>
      jobs[j].input_type \in {OBJECT, LANDSCAPE}


\* ------------------------------------------------ classify_image alone

\* The ledger row of a job that has just passed line 45.
RowAtClassify ==
  UpdateJob(UpdateJob(NewJobRow(None), PROCESSING, None, 10, None, {}),
            None, None, 20, None, {})

\* Every client's pipeline stands at line 46 with no hint, about to call
\* classify_image on an image of any size up to MaxClassifyDim.
\* The update_job calls committed when line 46 is reached (lines 34, 45).
WritesAtClassify ==
  <<[status |-> PROCESSING, input_type |-> None, progress |-> 10, outputs |-> {}],
    [status |-> None, input_type |-> None, progress |-> 20, outputs |-> {}]>>

ClassifyInit ==
  /\ REPLICATE_API_TOKEN \in BOOLEAN
  /\ HF_API_TOKEN \in BOOLEAN
  /\ image \in [Jobs -> [width : 0..MaxClassifyDim, height : 0..MaxClassifyDim]]
  /\ \A j \in Jobs : IF j \in Clients
                       THEN image[j].width >= 1 /\ image[j].height >= 1
                       ELSE image[j] = NoImage
  /\ jobs = [j \in Clients |-> RowAtClassify]
  /\ assets = {}
  /\ uploads = [j \in Clients |-> [readable |-> TRUE, width |-> image[j].width,
                                   height |-> image[j].height]]
  /\ blobs = {}
  /\ rpc = [j \in Jobs |-> IF j \in Clients THEN "responded" ELSE "idle"]
  /\ request = [j \in Jobs |-> [hint |-> None,
                                file |-> IF j \in Clients THEN uploads[j] ELSE TruncatedFile]]
  /\ pc = [j \in Jobs |-> IF j \in Clients THEN "classify" ELSE "none"]
  /\ input_type_hint = [j \in Jobs |-> None]
  /\ input_type = [j \in Jobs |-> None]
  /\ depth_image = [j \in Jobs |-> NoDepth]
  /\ outputs = [j \in Jobs |-> {}]
  /\ e = [j \in Jobs |-> None]
  /\ polls = [j \in Jobs |-> 0]
  /\ terminalWrites = [j \in Jobs |-> 0]
  /\ lateCalls = [j \in Jobs |-> FALSE]
  /\ storageFault = [j \in Jobs |-> FALSE]
  /\ writes = [j \in Jobs |-> IF j \in Clients THEN WritesAtClassify ELSE <<>>]
  /\ invocations = [j \in Jobs |-> IF j \in Clients THEN 1 ELSE 0]
  /\ classified = [j \in Jobs |-> FALSE]
  /\ hfAnswer = [j \in Jobs |-> "none"]
  /\ attempts = [j \in Jobs |-> <<>>]

ClassifyNext == \E j \in Clients : PI_Classify(j) \/ CI_ClassifyWithHF(j)

ClassifySpec == ClassifyInit /\ [][ClassifyNext]_vars

\* C15: classify_image never raises; with width / height > 1.5 it returns
\* Landscape and with width / height < 0.75 Object, without calling the
\* provider; in the band 0.75..1.5, boundaries included, it returns Landscape
\* only when the provider is configured and answers with a landscape label
\* among the top 5, and Object in every other case.
C15_ClassifyImage ==
  \A j \in Clients :
    LET w == image[j].width
        h == image[j].height
        above == 100 * w > 150 * h
        below == 100 * w < 75 * h
        called == pc[j] = "classify_hf" \/ hfAnswer[j] # "none"
    IN /\ pc[j] \in {"classify", "classify_hf", "u30"}
       /\ called => (~above /\ ~below /\ HF_API_TOKEN)
       /\ pc[j] = "u30" =>
            input_type[j] =
              IF above THEN LANDSCAPE
              ELSE IF below THEN OBJECT
              ELSE IF HF_API_TOKEN /\ hfAnswer[j] = "landscape_label" THEN LANDSCAPE
              ELSE OBJECT

\* C15 witness: an image of ratio exactly 1.5 for which the provider was
\* called, failed, and Object was returned.
C15_Witness ==
  \E j \in Clients :
    /\ image[j] = [width |-> 3, height |-> 2]
    /\ pc[j] = "u30"
    /\ hfAnswer[j] = "error"
    /\ input_type[j] = OBJECT


HasAsset(j, asset_type) == \E a \in AssetsOf(j) : a.asset_type = asset_type
HasBlob(j, asset_type) == AssetPath(j, asset_type, ".png") \in blobs

\* C16: the progress-80 update, the generate_mask call, the mask blob and
\* the mask asset row occur for a job exactly when its input type is Object.
C16_MaskIffObject ==
  \A j \in DOMAIN jobs :
    /\ ( \/ pc[j] \in {"u80", "mask", "save_mask", "asset_mask"}
         \/ jobs[j].progress = 80
         \/ HasAsset(j, "mask")
         \/ HasBlob(j, "mask") )
         => (input_type[j] = OBJECT /\ jobs[j].input_type = OBJECT)
    /\ (pc[j] \in {"u100", "returned"} /\ input_type[j] = OBJECT)
         => (HasAsset(j, "mask") /\ HasBlob(j, "mask") /\ jobs[j].progress >= 80)

\* C16 witness: a job classified (not hinted) as Object whose mask asset row
\* exists.
C16_Witness ==
  \E j \in DOMAIN jobs :
    classified[j] /\ jobs[j].input_type = OBJECT /\ HasAsset(j, "mask")

\* C17: when process_image has propagated an error, the ledger write of
\* status Failed with that error's text was issued and took effect before.
C17_FailedBeforePropagation ==
  \A j \in Jobs :
    pc[j] = "raised" =>
      /\ terminalWrites[j] >= 1
      /\ jobs[j].status = FAILED
      /\ jobs[j].error = e[j]

\* C18: every job row created by the submission route gets exactly one
\* pipeline run, scheduled once the upload is stored: a request that is over
\* leaves no row without a run.
C18_RunExactlyOnce ==
  \A j \in DOMAIN jobs :
    /\ invocations[j] <= 1
    /\ invocations[j] = 1 /\ rpc[j] # "direct" => j \in DOMAIN uploads
    /\ rpc[j] \in {"responded", "error"} => invocations[j] = 1

\* C19: the depth image persisted for a job is single-channel.
C19_DepthSingleChannel ==
  \A j \in Jobs :
    (HasBlob(j, "depth") \/ HasAsset(j, "depth")) => depth_image[j].mode = "L"


\* ------------------------------------------------- concurrent pipelines

\* What the clients of the concurrent system upload: a square image with no
\* hint, so that every step of the pipeline, the classification provider and
\* the mask step included, can occur for every job.
ConcHint == None
ConcFile == [readable |-> TRUE, width |-> 2, height |-> 2]

\* Every job of Jobs is submitted through the route, and the coroutines of
\* all requests and pipelines interleave at their suspension points.
ConcNext ==
  \E j \in Jobs :
    \/ Route_CreateJob(j) /\ request'[j] = [hint |-> ConcHint, file |-> ConcFile]
    \/ Route_SaveUpload(j)
    \/ process_image(j)

ConcSpec == Init /\ [][ConcNext]_vars


\* The coroutines of job k (its request and its pipeline) take no part in
\* the step.
Idle(k) == pc'[k] = pc[k] /\ rpc'[k] = rpc[k] /\ polls'[k] = polls[k]

AbsentFile == [readable |-> FALSE, width |-> 0, height |-> 0]
UploadOf(k) == IF k \in DOMAIN uploads THEN uploads[k] ELSE AbsentFile

\* C20: with the pipelines of several jobs interleaved in any way, a step of
\* one job's coroutines changes nothing of another job: not its ledger row as
\* get_job returns it, its asset rows, its upload or its blobs, nor the
\* locals its own next steps are computed from.
C20_NoInterference ==
  [][\A k \in Jobs :
       Idle(k) =>
         /\ GetJob(k)' = GetJob(k)
         /\ AssetsOf(k)' = AssetsOf(k)
         /\ BlobsOf(k)' = BlobsOf(k)
         /\ UploadOf(k)' = UploadOf(k)
         /\ input_type_hint'[k] = input_type_hint[k]
         /\ image'[k] = image[k]
         /\ input_type'[k] = input_type[k]
         /\ depth_image'[k] = depth_image[k]
         /\ Keys(outputs'[k]) = Keys(outputs[k])
         /\ e'[k] = e[k]]_vars

\* C20 witness: one job is Completed while another is still polling the
\* depth provider.
C20_Witness ==
  \E j, k \in DOMAIN jobs :
    /\ j # k
    /\ jobs[j].status = COMPLETED
    /\ pc[k] = "replicate_poll" /\ polls[k] > 0 /\ jobs[k].status = PROCESSING

\* ------------------------------------------------------------------ C21

\* The progress values of a run that returns, for the type written with 30.
SuccessProgress(itype) ==
  <<10, 20, 30, 40, 60>> \o (IF itype = OBJECT THEN <<80>> ELSE <<>>) \o <<100>>

\* C21: when process_image has returned, the update_job calls it committed
\* carry the progress values 10, 20, 30, 40, 60, 80 only for an Object job,
\* and 100, in that order and nothing else; status Processing goes with 10
\* and only with 10, input_type with 30 and only with 30, status Completed
\* and the outputs with 100 and only with 100.
C21_ProgressSequence ==
  \A j \in Jobs :
    pc[j] = "returned" =>
      /\ Len(writes[j]) >= 3
      /\ [i \in 1..Len(writes[j]) |-> writes[j][i].progress]
           = SuccessProgress(writes[j][3].input_type)
      /\ \A i \in 1..Len(writes[j]) :
           LET w == writes[j][i] IN
             /\ w.status \in {None, PROCESSING, COMPLETED}
             /\ w.status = PROCESSING <=> w.progress = 10
             /\ w.input_type # None <=> w.progress = 30
             /\ w.status = COMPLETED <=> w.progress = 100
             /\ w.outputs # {} <=> w.progress = 100
      /\ jobs[j].input_type = writes[j][3].input_type

\* C21 witness: an Object run has returned after its seven updates.
C21_Witness ==
  \E j \in Jobs :
    /\ pc[j] = "returned"
    /\ input_type[j] = OBJECT
    /\ Len(writes[j]) = 7
    /\ writes[j][6].progress = 80

\* ------------------------------------------------------------------ C22

\* The providers in rank order, those without a credential left out.
ProviderRank ==
  (IF REPLICATE_API_TOKEN THEN <<"replicate">> ELSE <<>>)
    \o (IF HF_API_TOKEN THEN <<"hf">> ELSE <<>>) \o <<"fallback">>

IsPrefix(s, t) == Len(s) <= Len(t) /\ \A i \in 1..Len(s) : s[i] = t[i]

\* C22: the providers generate_depth_map has called are an initial part of
\* the rank order Replicate, Hugging Face, fallback restricted to the
\* configured ones; the depth image it returns comes from the provider
\* called last, so no provider is called after a success; and the fallback
\* is being called or has been called exactly when every configured
\* provider has been called before it and failed.
C22_ProviderOrder ==
  \A j \in Jobs :
    LET n == Len(attempts[j]) IN
      /\ IsPrefix(attempts[j], ProviderRank)
      /\ depth_image[j] # NoDepth =>
           n > 0 /\ depth_image[j].source = attempts[j][n]
      /\ pc[j] = "replicate_post" => attempts[j] = <<>> /\ REPLICATE_API_TOKEN
      /\ pc[j] = "hf_depth" =>
           /\ HF_API_TOKEN
           /\ attempts[j] = SubSeq(ProviderRank, 1, Len(ProviderRank) - 2)
      /\ pc[j] = "fallback_depth" =>
           attempts[j] = SubSeq(ProviderRank, 1, Len(ProviderRank) - 1)
      /\ (n > 0 /\ attempts[j][n] = "fallback") => attempts[j] = ProviderRank
      /\ (pc[j] = "except" /\ e[j] = ErrZeroDivision /\ depth_image[j] = NoDepth
            /\ n > 0) => attempts[j] = ProviderRank

\* C22 witness: both credentials are configured, both providers failed and
\* the fallback produced the depth image.
C22_Witness ==
  \E j \in Jobs :
    /\ REPLICATE_API_TOKEN /\ HF_API_TOKEN
    /\ attempts[j] = <<"replicate", "hf", "fallback">>
    /\ depth_image[j].source = "fallback"

\* ------------------------------------------------------------------ C23

\* What C23 says of the polling loop of job j in one step, apart from the
\* step taken after a poll that reported succeeded.
PollRules(j) ==
  /\ polls'[j] <= MaxPolls
  /\ polls'[j] # polls[j] => polls'[j] = polls[j] + 1 \/ polls'[j] = 0
  /\ polls'[j] = polls[j] + 1 =>
       /\ pc[j] = "replicate_poll" /\ polls[j] < MaxPolls
       /\ pc'[j] \in {"replicate_poll", "replicate_download",
                      "replicate_failed", "replicate_error"}
  /\ (pc[j] \in {"replicate_failed", "replicate_error"} /\ pc'[j] # pc[j]) =>
       /\ pc'[j] = AfterReplicate
       /\ depth_image'[j] = NoDepth
  /\ (pc[j] = "replicate_poll" /\ polls[j] < MaxPolls /\ pc'[j] # pc[j]) =>
       /\ polls'[j] = polls[j] + 1
       /\ pc'[j] \in {"replicate_download", "replicate_failed", "replicate_error"}
  /\ (pc[j] = "replicate_poll" /\ polls[j] = MaxPolls /\ <<pc[j], polls[j]>> # <<pc'[j], polls'[j]>>) =>
       /\ pc'[j] = AfterReplicate
       /\ depth_image'[j] = NoDepth

\* C23 as stated: the step after a poll that reported succeeded returns the
\* provider output.
C23_SucceededAlwaysReturns ==
  [][\A j \in Jobs :
      /\ PollRules(j)
      /\ (pc[j] = "replicate_download" /\ pc'[j] # pc[j]) =>
           /\ pc'[j] = "u60"
           /\ depth_image'[j].source = "replicate"]_vars

\* C23: a Replicate attempt polls at most MaxPolls times and never once
\* more; a poll reporting failed or raising ends the attempt as a failure
\* without another poll; when MaxPolls polls were made and none ended the
\* loop the attempt fails; after the first poll reporting succeeded there is
\* no further poll, the output is downloaded and the attempt returns it, or
\* fails if the download or the decoding of the output raises.
C23_PollingLoop ==
  [][\A j \in Jobs :
      /\ PollRules(j)
      /\ (pc[j] = "replicate_download" /\ pc'[j] # pc[j]) =>
           /\ polls'[j] = 0
           /\ \/ pc'[j] = "u60" /\ depth_image'[j].source = "replicate"
              \/ pc'[j] = AfterReplicate /\ depth_image'[j] = NoDepth]_vars

\* C23 witness: the 60th poll has been made and did not end the loop.
C23_Witness ==
  \E j \in Jobs : pc[j] = "replicate_poll" /\ polls[j] = MaxPolls

\* ------------------------------------------------------------------ C24

\* C24: no job owns two asset rows of one asset type; the asset rows of a
\* Completed job are exactly the entries of its outputs, each under its own
\* asset type; a Failed job has empty outputs whatever rows it owns.
C24_AssetsMatchOutputs ==
  \A j \in DOMAIN jobs :
    /\ \A a, b \in AssetsOf(j) : a.asset_type = b.asset_type => a = b
    /\ \A a, b \in assets : a.id = b.id => a = b
    /\ jobs[j].status = COMPLETED =>
         {<<a.asset_type, a.id>> : a \in AssetsOf(j)} = jobs[j].outputs
    /\ jobs[j].status = FAILED => jobs[j].outputs = {}

\* C24 witness: two jobs have run side by side, one is Completed and owns
\* three asset rows, the other is Failed and owns an asset row.
C24_Witness ==
  \E j, k \in DOMAIN jobs :
    /\ jobs[j].status = COMPLETED
    /\ Cardinality(AssetsOf(j)) = 3
    /\ Cardinality(jobs[j].outputs) = 3
    /\ jobs[k].status = FAILED
    /\ AssetsOf(k) # {}

\* ------------------------------------------------------------------ C25

\* C25: every asset row has its blob in the owning job's directory under
\* the recorded filename, so a download of a recorded asset id is answered
\* with the file; and a step that inserts an asset row finds the blob
\* already written.
C25_BlobBeforeRecord ==
  \A a \in assets :
    /\ <<a.job_id, a.filename>> \in blobs
    /\ DownloadAsset(a.id) = "FileResponse"

\* C25 witness: the depth asset row of a job has just been inserted, after
\* its blob, and a download of it is answered with the file.
C25_Witness ==
  \E a \in assets :
    /\ a.asset_type = "depth"
    /\ pc[a.job_id] \in {"u80", "u100"}
    /\ DownloadAsset(a.id) = "FileResponse"

====
